---- MODULE Spec2Model ----
(***************************************************************************)
(* Model of Doping-Calculator.py: FormulaParser.parse and the              *)
(* SynthesisCalculator run of main() (input_target, input_reagents,        *)
(* validate_elements, calculate with build_equations and solve).           *)
(*                                                                         *)
(* Numbers are exact rationals <<numerator, denominator>> in lowest terms. *)
(* A Python Decimal operation is the exact operation followed by rounding  *)
(* to Prec significant decimal digits (the decimal context); float() and   *)
(* the float arithmetic inside sympy's linsolve are the exact operation    *)
(* followed by rounding to MantBits significant bits.  The program runs    *)
(* with 100 decimal digits and 53 bits; the model keeps the order          *)
(*   float precision < longest input literal < decimal precision           *)
(* at a scale TLC's integers can hold.                                     *)
(***************************************************************************)
EXTENDS Integers, Sequences, FiniteSets, TLC

VARIABLES
    pc,                 \* position of main(): the next call, or exit / raised / done
    outcome,            \* message the run ended with ("" while running)
    calls,              \* number of input_target calls made on the calculator
    target,             \* self.target: dict as insertion-ordered <<elem, coeff>> pairs
    target_mm,          \* self.target_mm
    reagents,           \* self.reagents
    reagent_formulas,   \* self.reagent_formulas
    molar_masses,       \* self.molar_masses
    warning,            \* validate_elements printed the extra-elements warning
    n,                  \* calculate: target amount in moles (<<>> before it is set)
    system,             \* build_equations' (A, b, all_elements), <<>> before it is built
    solution,           \* calculate: solutions[0] as the sequence x0, x1, ... (<<>> if none)
    printed,            \* per-reagent results printed so far: <<index, moles, mass>>
    total_mass,         \* <<total>> once "Total reagent mass" is printed, else <<>>
    verification,       \* rows printed by the verification loop
    errIndex,           \* reagent number named by the negative-moles error (0: none)
    formula,            \* FormulaParser.parse called on its own: the argument
    parsed              \* ... and its result (ParseNone before the call)

vars == <<pc, outcome, calls, target, target_mm, reagents, reagent_formulas,
          molar_masses, warning, n, system, solution, printed, total_mass,
          verification, errIndex, formula, parsed>>

----------------------------------------------------------------------------
(* Bounds of the model *)

\* significant decimal digits of the Decimal context and of evalf (100 in the program)
Prec == 4
\* significant bits of a float (53 in the program)
MantBits == 6
\* decimal digits a sympy Float of that precision prints and converts with (15)
FloatDigits == 2
\* largest coefficient mpmath.identify accepts in a relation p/q (1000)
MaxCoeff == 5
\* length of the formula strings FormulaParser.parse is applied to on its own
MaxLen == 6
\* reagents entered in input_reagents
MaxReagents == 2
\* input_target calls on one calculator
MaxTargetCalls == 2

----------------------------------------------------------------------------
(* Exact rationals *)

Abs(x) == IF x < 0 THEN -x ELSE x

RECURSIVE GCD(_, _)
GCD(a, b) == IF b = 0 THEN a ELSE GCD(b, a % b)

RECURSIVE Pow(_, _)
Pow(b, k) == IF k = 0 THEN 1 ELSE b * Pow(b, k - 1)

Rat(num, den) ==
    LET g == GCD(Abs(num), Abs(den))
        s == IF den < 0 THEN -1 ELSE 1
    IN  <<s * (num \div g), s * (den \div g)>>

Zero == <<0, 1>>
One == <<1, 1>>
Two == <<2, 1>>

RNeg(x) == <<-x[1], x[2]>>
RAbs(x) == <<Abs(x[1]), x[2]>>

RAdd(x, y) ==
    LET g == GCD(x[2], y[2])
        l == x[2] * (y[2] \div g)
    IN  Rat(x[1] * (l \div x[2]) + y[1] * (l \div y[2]), l)

RSub(x, y) == RAdd(x, RNeg(y))

RMul(x, y) ==
    LET g1 == GCD(Abs(x[1]), y[2])
        g2 == GCD(Abs(y[1]), x[2])
    IN  IF x[1] = 0 \/ y[1] = 0 THEN Zero
        ELSE <<(x[1] \div g1) * (y[1] \div g2), (x[2] \div g2) * (y[2] \div g1)>>

RInv(x) == IF x[1] < 0 THEN <<-x[2], -x[1]>> ELSE <<x[2], x[1]>>

RDiv(x, y) == RMul(x, RInv(y))

RLt(x, y) == RSub(x, y)[1] < 0

----------------------------------------------------------------------------
(* Rounding to a number of significant digits, ties to even *)

RECURSIVE NumDigits(_, _)
NumDigits(a, base) == IF a < base THEN 1 ELSE 1 + NumDigits(a \div base, base)

RECURSIVE Valuation(_, _)
Valuation(a, base) == IF a % base = 0 THEN 1 + Valuation(a \div base, base) ELSE 0

\* quotient q with remainder r of a division by d, rounded to nearest, ties to even
RoundQuotient(q, r, d) ==
    IF 2 * r < d THEN q
    ELSE IF 2 * r > d THEN q + 1
    ELSE IF q % 2 = 0 THEN q ELSE q + 1

\* a / d rounded to the nearest integer (a >= 0, d > 0)
HalfEven(a, d) == RoundQuotient(a \div d, a % d, d)

\* smallest t >= 1 with a * base^t >= d (0 < a < d)
RECURSIVE LeadShift(_, _, _)
LeadShift(a, d, base) == IF a * base >= d THEN 1 ELSE 1 + LeadShift(a * base, d, base)

\* long division: count more digits of r / d appended to m; <<m, remainder>>
RECURSIVE MoreDigits(_, _, _, _, _)
MoreDigits(m, r, d, base, count) ==
    IF count = 0 THEN <<m, r>>
    ELSE MoreDigits(m * base + (r * base) \div d, (r * base) % d, d, base, count - 1)

\* m * base^e in lowest terms
ScaleBy(m, base, e) ==
    LET v == IF m = 0 THEN 0 ELSE Valuation(Abs(m), base)
        c == IF v < -e THEN v ELSE -e
    IN  IF e >= 0 THEN Rat(m * Pow(base, e), 1)
        ELSE Rat(m \div Pow(base, c), Pow(base, -e - c))

RoundSig(x, base, digits) ==
    IF x[1] = 0 THEN Zero
    ELSE LET s  == IF x[1] < 0 THEN -1 ELSE 1
             va == Valuation(Abs(x[1]), base)
             vd == Valuation(x[2], base)
             a  == Abs(x[1]) \div Pow(base, va)
             d  == x[2] \div Pow(base, vd)
             \* x = s * (a / d) * base^(va - vd); m * base^k is a / d rounded
             k  == IF a >= d THEN NumDigits(a \div d, base) - digits
                   ELSE 1 - LeadShift(a, d, base) - digits
             md == MoreDigits(a \div d, a % d, d, base, -k)
             m  == IF k >= 0 THEN HalfEven(a, d * Pow(base, k))
                   ELSE RoundQuotient(md[1], md[2], d)
         IN  ScaleBy(s * m, base, k + va - vd)

----------------------------------------------------------------------------
(* Decimal: arithmetic rounds to the context precision, construction is exact *)

DecRound(x) == RoundSig(x, 10, Prec)
DecAdd(x, y) == DecRound(RAdd(x, y))
DecSub(x, y) == DecRound(RSub(x, y))
DecMul(x, y) == DecRound(RMul(x, y))
DecDiv(x, y) == DecRound(RDiv(x, y))

Digits == <<"0", "1", "2", "3", "4", "5", "6", "7", "8", "9">>
DigitVal(c) == (CHOOSE i \in 1..10 : Digits[i] = c) - 1
IsDigit(c) == \E i \in 1..10 : Digits[i] = c

RECURSIVE DigitsValue(_)
DigitsValue(ds) ==
    IF ds = <<>> THEN 0
    ELSE 10 * DigitsValue(SubSeq(ds, 1, Len(ds) - 1)) + DigitVal(ds[Len(ds)])

\* Decimal(str) for a string of digits and dots: [ok, value]
DecimalOf(str) ==
    LET dots == {i \in 1..Len(str) : str[i] = "."}
        digs == SelectSeq(str, IsDigit)
    IN  IF Cardinality(dots) > 1 \/ digs = <<>> \/ Len(digs) + Cardinality(dots) # Len(str)
        THEN [ok |-> FALSE, value |-> Zero]
        ELSE LET frac == IF dots = {} THEN 0 ELSE Len(str) - (CHOOSE i \in dots : TRUE)
             IN  [ok |-> TRUE, value |-> Rat(DigitsValue(digs), Pow(10, frac))]

----------------------------------------------------------------------------
(* FormulaParser.parse *)

UpperCase == {"A", "B", "C", "D", "E", "F", "G", "H", "I", "J", "K", "L", "M",
              "N", "O", "P", "Q", "R", "S", "T", "U", "V", "W", "X", "Y", "Z"}
LowerCase == {"a", "b", "c", "d", "e", "f", "g", "h", "i", "j", "k", "l", "m",
              "n", "o", "p", "q", "r", "s", "t", "u", "v", "w", "x", "y", "z"}
IsNumberChar(c) == IsDigit(c) \/ c = "."

\* a dict is a sequence of <<key, value>> pairs in insertion order, keys distinct
Keys(dict) == {dict[i][1] : i \in 1..Len(dict)}
Get(dict, key, default) ==
    IF key \in Keys(dict)
    THEN (dict[CHOOSE i \in 1..Len(dict) : dict[i][1] = key])[2]
    ELSE default

\* if elem in elements: elements[elem] += coeff   else: elements[elem] = coeff
AccumulateOverwrite(elements, elem, coeff) ==
    IF elem \in Keys(elements)
    THEN [i \in 1..Len(elements) |->
            IF elements[i][1] = elem THEN <<elem, coeff>> ELSE elements[i]]
    ELSE Append(elements, <<elem, coeff>>)

Accumulate(elements, elem, coeff) ==
    IF elem \in Keys(elements)
    THEN [i \in 1..Len(elements) |->
            IF elements[i][1] = elem
            THEN <<elem, DecAdd(elements[i][2], coeff)>>
            ELSE elements[i]]
    ELSE Append(elements, <<elem, coeff>>)

\* end of the longest run of [\d.] that starts at position from (from - 1 if none)
RECURSIVE NumberEnd(_, _)
NumberEnd(str, from) ==
    IF from <= Len(str) /\ IsNumberChar(str[from]) THEN NumberEnd(str, from + 1)
    ELSE from - 1

ParseOk(elements) == [ok |-> TRUE, elements |-> elements, error |-> ""]
ParseError(msg) == [ok |-> FALSE, elements |-> <<>>, error |-> msg]
ParseNone == [ok |-> FALSE, elements |-> <<>>, error |-> "not parsed"]

\* the while loop of parse; index is 1-based
RECURSIVE ParseFrom(_, _, _)
ParseFrom(str, index, elements) ==
    IF index > Len(str) THEN ParseOk(elements)
    ELSE IF str[index] \notin UpperCase THEN ParseError("Invalid formula format")
    ELSE LET symEnd == IF index + 1 <= Len(str) /\ str[index + 1] \in LowerCase
                       THEN index + 1 ELSE index
             numEnd == NumberEnd(str, symEnd + 1)
             elem   == SubSeq(str, index, symEnd)
             number == SubSeq(str, symEnd + 1, numEnd)
             coeff  == IF number = <<>> THEN [ok |-> TRUE, value |-> One]
                       ELSE DecimalOf(number)
         IN  IF ~coeff.ok THEN ParseError("Invalid coefficient")
             ELSE ParseFrom(str, numEnd + 1, Accumulate(elements, elem, coeff.value))

parse(str) == ParseFrom(str, 1, <<>>)

----------------------------------------------------------------------------
(* SynthesisCalculator: the fields and the input handlers *)

Li == <<"L", "i">>
Cl == <<"C", "l">>

\* self.atomic_masses: the table AtomicMassReader.read returned
atomic_masses == << <<Li, <<7, 1>>>>, <<Cl, <<35, 1>>>> >>

\* for elem, coeff in items: raise if elem has no mass, else mm += coeff * mass
RECURSIVE MassLoop(_, _, _)
MassLoop(items, i, mm) ==
    IF i > Len(items) THEN [ok |-> TRUE, mm |-> mm]
    ELSE IF items[i][1] \notin Keys(atomic_masses) THEN [ok |-> FALSE, mm |-> mm]
    ELSE MassLoop(items, i + 1,
                  DecAdd(mm, DecMul(items[i][2], Get(atomic_masses, items[i][1], Zero))))

\* the formulas typed at the prompts
Formulas ==
    { <<"L", "i">>,
      <<"L", "i", "3">>,
      <<"C", "l">>,
      <<"L", "i", "C", "l">>,
      <<"L", "i", "C", "l", "1", ".", "0", "1">>,
      <<"X", "e">> }

InputTarget(f) ==
    /\ pc \in {"input_target", "input_reagents"}
    /\ calls < MaxTargetCalls
    /\ calls' = calls + 1
    /\ LET r == parse(f)
           m == MassLoop(r.elements, 1, target_mm)
       IN  IF ~r.ok
           THEN /\ pc' = "raised"
                /\ outcome' = r.error
                /\ UNCHANGED <<target, target_mm>>
           ELSE /\ target' = r.elements
                /\ target_mm' = m.mm
                /\ pc' = IF m.ok THEN "input_reagents" ELSE "raised"
                /\ outcome' = IF m.ok THEN "" ELSE "mass not defined"
    /\ UNCHANGED <<reagents, reagent_formulas, molar_masses, warning, n, system,
                   solution, printed, total_mass, verification, errIndex,
                   formula, parsed>>

\* the for loop of input_reagents over the formulas typed, from the i-th on
RECURSIVE ReagentLoop(_, _, _)
ReagentLoop(fs, i, st) ==
    IF i > Len(fs) THEN st
    ELSE LET r   == parse(fs[i])
             m   == MassLoop(r.elements, 1, Zero)
             st1 == [st EXCEPT !.formulas = Append(@, fs[i])]
         IN  IF ~r.ok \/ ~m.ok
             THEN [st1 EXCEPT !.ok = FALSE]
             ELSE ReagentLoop(fs, i + 1,
                              [st1 EXCEPT !.reagents = Append(@, r.elements),
                                          !.masses = Append(@, m.mm)])

FormulaLists == UNION {[1..k -> Formulas] : k \in 0..MaxReagents}

InputReagents(fs) ==
    /\ pc = "input_reagents"
    /\ LET st == ReagentLoop(fs, 1, [reagents |-> reagents, formulas |-> reagent_formulas,
                                     masses |-> molar_masses, ok |-> TRUE])
       IN  /\ reagents' = st.reagents
           /\ reagent_formulas' = st.formulas
           /\ molar_masses' = st.masses
           /\ pc' = IF st.ok THEN "validate_elements" ELSE "exit"
           /\ outcome' = IF st.ok THEN "" ELSE "Input error"
    /\ UNCHANGED <<calls, target, target_mm, warning, n, system, solution, printed,
                   total_mass, verification, errIndex, formula, parsed>>

Provided(rs) == UNION {Keys(rs[i]) : i \in 1..Len(rs)}

MissingSwapped(t, rs) == Provided(rs) \ Keys(t)
Missing(t, rs) == Keys(t) \ Provided(rs)
Extra(t, rs) == Provided(rs) \ Keys(t)

ValidateElements ==
    /\ pc = "validate_elements"
    /\ IF Missing(target, reagents) # {}
       THEN /\ pc' = "exit"
            /\ outcome' = "Missing elements"
            /\ UNCHANGED warning
       ELSE /\ pc' = "calculate"
            /\ warning' = (Extra(target, reagents) # {})
            /\ UNCHANGED outcome
    /\ UNCHANGED <<calls, target, target_mm, reagents, reagent_formulas, molar_masses,
                   n, system, solution, printed, total_mass, verification, errIndex,
                   formula, parsed>>

----------------------------------------------------------------------------
(* build_equations *)

Letters == <<"A", "B", "C", "D", "E", "F", "G", "H", "I", "J", "K", "L", "M",
             "N", "O", "P", "Q", "R", "S", "T", "U", "V", "W", "X", "Y", "Z",
             "a", "b", "c", "d", "e", "f", "g", "h", "i", "j", "k", "l", "m",
             "n", "o", "p", "q", "r", "s", "t", "u", "v", "w", "x", "y", "z">>
CodePoint(c) == CHOOSE i \in 1..Len(Letters) : Letters[i] = c

\* str < str of Python, on element symbols
RECURSIVE StrLess(_, _)
StrLess(x, y) ==
    IF y = <<>> THEN FALSE
    ELSE IF x = <<>> THEN TRUE
    ELSE IF x[1] # y[1] THEN CodePoint(x[1]) < CodePoint(y[1])
    ELSE StrLess(Tail(x), Tail(y))

RECURSIVE sorted(_)
sorted(set) ==
    IF set = {} THEN <<>>
    ELSE LET least == CHOOSE x \in set : \A y \in set \ {x} : StrLess(x, y)
         IN  <<least>> \o sorted(set \ {least})

build_equations(t, rs, moles) ==
    LET all_elements == sorted(Keys(t) \cup Provided(rs))
    IN  [built    |-> TRUE,
         A        |-> [e \in 1..Len(all_elements) |->
                         [c \in 1..Len(rs) |-> Get(rs[c], all_elements[e], Zero)]],
         b        |-> [e \in 1..Len(all_elements) |->
                         DecMul(Get(t, all_elements[e], Zero), moles)],
         elements |-> all_elements]

NoSystem == [built |-> FALSE, A |-> <<>>, b |-> <<>>, elements |-> <<>>]

----------------------------------------------------------------------------
(* solve: float conversion, linsolve over floats, nsimplify / evalf / Decimal *)

\* float(val)
Float(x) == RoundSig(x, 2, MantBits)

\* one arithmetic result of the elimination: rounded to a float, or kept exact
Fl(x, exact) == IF exact THEN x ELSE Float(x)

\* first row among i..m with the largest |a[r][j]| (partial pivoting)
PivotRow(a, i, j) ==
    CHOOSE r \in i..Len(a) :
        /\ \A q \in i..Len(a) : ~RLt(RAbs(a[r][j]), RAbs(a[q][j]))
        /\ \A q \in i..(r - 1) : RLt(RAbs(a[q][j]), RAbs(a[r][j]))

SwapRows(a, i, r) ==
    [k \in 1..Len(a) |-> IF k = i THEN a[r] ELSE IF k = r THEN a[i] ELSE a[k]]

\* Gauss-Jordan elimination of the augmented matrix from row i, column j on
RECURSIVE ddm_irref(_, _, _, _, _)
ddm_irref(a, i, j, pivots, exact) ==
    IF i > Len(a) \/ j > Len(a[1]) THEN [a |-> a, pivots |-> pivots]
    ELSE LET a1  == SwapRows(a, i, PivotRow(a, i, j))
             aij == a1[i][j]
         IN  IF aij = Zero THEN ddm_irref(a1, i, j + 1, pivots, exact)
             ELSE LET aijinv == Fl(RInv(aij), exact)
                      ai == [l \in 1..Len(a1[i]) |->
                               IF l < j THEN a1[i][l]
                               ELSE Fl(RMul(a1[i][l], aijinv), exact)]
                      a2 == [k \in 1..Len(a1) |->
                               IF k = i THEN ai
                               ELSE IF a1[k][j] = Zero THEN a1[k]
                               ELSE [l \in 1..Len(ai) |->
                                       IF l < j THEN a1[k][l]
                                       ELSE IF l = j THEN Zero
                                       ELSE Fl(RSub(a1[k][l],
                                                    Fl(RMul(a1[k][j], ai[l]), exact)),
                                               exact)]]
                  IN  ddm_irref(a2, i + 1, j + 1, Append(pivots, j), exact)

Augmented(A, b) == [e \in 1..Len(A) |-> Append(A[e], b[e])]

\* linsolve((A, b), vars): "empty" (EmptySet), "param" (a tuple with free symbols)
\* or "point" with the values of x0, x1, ...
\* the solution set read off the reduced augmented matrix and its pivot columns
solution_set(rref, piv, nvars) ==
    IF piv # <<>> /\ piv[Len(piv)] = nvars + 1
    THEN [kind |-> "empty", x |-> <<>>]
    ELSE IF Len(piv) < nvars THEN [kind |-> "param", x |-> <<>>]
    ELSE [kind |-> "point", x |-> [c \in 1..nvars |-> rref[c][nvars + 1]]]

reduced(r, nvars) == solution_set(r.a, r.pivots, nvars)

linsolve(A, b, nvars, exact) ==
    IF Len(A) = 0 THEN [kind |-> IF nvars = 0 THEN "point" ELSE "param", x |-> <<>>]
    ELSE reduced(ddm_irref(Augmented(A, b), 1, 1, <<>>, exact), nvars)

\* tolerance of nsimplify for a float: 10^-15 against 2^-53
Tolerance == <<1, Pow(2, MantBits - 3)>>

\* _real_to_rational(expr, rational_conversion='base10')
Base10(f) == RoundSig(f, 10, FloatDigits)

\* nsimplify(val): the simplest p/q, |p|, q <= MaxCoeff, within the tolerance, else
\* the float's decimal representation
nsimplify(f) ==
    LET g     == RAbs(f)
        near(q) == HalfEven(g[1] * q, g[2])
        fits(q) == /\ near(q) \in 1..MaxCoeff
                   /\ RLt(RAbs(RSub(RMul(g, <<q, 1>>), <<near(q), 1>>)), Tolerance)
        cands == {q \in 1..MaxCoeff : fits(q)}
    IN  IF f = Zero THEN Zero
        ELSE IF RLt(g, Tolerance) \/ cands = {} THEN Base10(f)
        ELSE LET q == CHOOSE c \in cands : \A o \in cands : c <= o
             IN  Rat((IF f[1] < 0 THEN -1 ELSE 1) * near(q), q)

\* Decimal(str(nsimplify(val).evalf(100)))
cleaned_val(f) == RoundSig(nsimplify(f), 10, Prec)

\* A_float = [[float(val) for val in row] for row in A]
A_float(A) == [e \in 1..Len(A) |-> [c \in 1..Len(A[e]) |-> Float(A[e][c])]]

\* b_float = [float(val) for val in b]
b_float(b) == [e \in 1..Len(b) |-> Float(b[e])]

\* the loop over solution[0]
cleaned(sys, sol) ==
    [system |-> sys,
     kind   |-> sol.kind,
     x      |-> [c \in 1..Len(sol.x) |-> cleaned_val(sol.x[c])]]

solve_system(sys, nvars) ==
    cleaned(sys, linsolve(A_float(sys.A), b_float(sys.b), nvars, FALSE))

solve(t, rs, moles) == solve_system(build_equations(t, rs, moles), Len(rs))

----------------------------------------------------------------------------
(* calculate *)

\* if moles < 0
IsNegativeFlipped(moles) == RLt(Zero, moles)
IsNegative(moles) == RLt(moles, Zero)

\* the reagent loop: prints <<i, moles, mass>> and adds the mass, until a negative
RECURSIVE PrintLoop(_, _, _, _)
PrintLoop(x, masses, i, st) ==
    IF i > Len(x) THEN st
    ELSE IF IsNegative(x[i]) THEN [st EXCEPT !.negative = i]
    ELSE LET mass == DecMul(x[i], masses[i])
         IN  PrintLoop(x, masses, i + 1,
                       [st EXCEPT !.printed = Append(@, <<i, x[i], mass>>),
                                  !.total = DecAdd(@, mass)])

\* element_totals[element] += moles * coeff over the reagents i.. and their elements k..
RECURSIVE ElementTotals(_, _, _, _, _)
ElementTotals(x, rs, i, k, totals) ==
    IF i > Len(rs) THEN totals
    ELSE IF k > Len(rs[i]) THEN ElementTotals(x, rs, i + 1, 1, totals)
    ELSE LET element == rs[i][k][1]
             amount  == DecAdd(Get(totals, element, Zero), DecMul(x[i], rs[i][k][2]))
             totals1 == IF element \in Keys(totals)
                        THEN [q \in 1..Len(totals) |->
                                IF totals[q][1] = element THEN <<element, amount>>
                                ELSE totals[q]]
                        ELSE Append(totals, <<element, amount>>)
         IN  ElementTotals(x, rs, i, k + 1, totals1)

Verify(x, t, rs, elements, moles) ==
    LET totals == ElementTotals(x, rs, 1, 1, <<>>)
    IN  [e \in 1..Len(elements) |->
           LET target_amount == DecMul(Get(t, elements[e], Zero), moles)
               actual_amount == Get(totals, elements[e], Zero)
           IN  [element |-> elements[e],
                target  |-> target_amount,
                actual  |-> actual_amount,
                diff    |-> DecSub(actual_amount, target_amount)]]

InputTypes == {"0", "1", "2"}
Amounts == {<<"1">>, <<"3">>, <<"x">>}

\* what calculate leaves behind: where the run is, and everything it printed
Ended(where, msg) ==
    [pc |-> where, outcome |-> msg, n |-> <<>>, system |-> NoSystem,
     solution |-> <<>>, printed |-> <<>>, total_mass |-> <<>>,
     verification |-> <<>>, errIndex |-> 0]

\* after the reagent loop: the negative-moles error, or the total and the verification
Report(moles, res, loop, t, rs) ==
    IF loop.negative # 0
    THEN [pc |-> "exit", outcome |-> "Negative moles", n |-> moles,
          system |-> res.system, solution |-> res.x, printed |-> loop.printed,
          total_mass |-> <<>>, verification |-> <<>>, errIndex |-> loop.negative]
    ELSE [pc |-> "done", outcome |-> "done", n |-> moles,
          system |-> res.system, solution |-> res.x, printed |-> loop.printed,
          total_mass |-> <<loop.total>>,
          verification |-> Verify(res.x, t, rs, res.system.elements, moles),
          errIndex |-> 0]

\* after solve: no solution, a solution with free symbols, or the reagent loop
Solved(moles, res, t, rs, masses) ==
    IF res.kind = "empty"
    THEN [Ended("exit", "No exact solution") EXCEPT !.n = moles, !.system = res.system]
    ELSE IF res.kind = "param"
    THEN [Ended("raised", "InvalidOperation") EXCEPT !.n = moles, !.system = res.system]
    ELSE Report(moles, res,
                PrintLoop(res.x, masses, 1,
                          [printed |-> <<>>, total |-> Zero, negative |-> 0]),
                t, rs)

WithMoles(moles, t, rs, masses) == Solved(moles, solve(t, rs, moles), t, rs, masses)

WithAmount(input_type, amount, t, mm, rs, masses) ==
    IF ~amount.ok THEN Ended("exit", "Invalid amount")
    ELSE IF input_type = "1" THEN WithMoles(amount.value, t, rs, masses)
    ELSE IF mm = Zero THEN Ended("raised", "DivisionByZero")
    ELSE WithMoles(DecDiv(amount.value, mm), t, rs, masses)

calculate(input_type, value, t, mm, rs, masses) ==
    IF input_type \notin {"0", "1"} THEN Ended("exit", "Invalid input type")
    ELSE WithAmount(input_type, DecimalOf(value), t, mm, rs, masses)

Calculate(input_type, value) ==
    /\ pc = "calculate"
    /\ \E r \in {calculate(input_type, value, target, target_mm, reagents, molar_masses)} :
           /\ pc' = r.pc
           /\ outcome' = r.outcome
           /\ n' = r.n
           /\ system' = r.system
           /\ solution' = r.solution
           /\ printed' = r.printed
           /\ total_mass' = r.total_mass
           /\ verification' = r.verification
           /\ errIndex' = r.errIndex
    /\ UNCHANGED <<calls, target, target_mm, reagents, reagent_formulas, molar_masses,
                   warning, formula, parsed>>

----------------------------------------------------------------------------
(* The run of main() on a calculator *)

Init ==
    /\ pc = "input_target"
    /\ outcome = ""
    /\ calls = 0
    /\ target = <<>>
    /\ target_mm = Zero
    /\ reagents = <<>>
    /\ reagent_formulas = <<>>
    /\ molar_masses = <<>>
    /\ warning = FALSE
    /\ n = <<>>
    /\ system = NoSystem
    /\ solution = <<>>
    /\ printed = <<>>
    /\ total_mass = <<>>
    /\ verification = <<>>
    /\ errIndex = 0
    /\ formula = <<>>
    /\ parsed = ParseNone

Next ==
    \/ \E f \in Formulas : InputTarget(f)
    \/ \E fs \in FormulaLists : InputReagents(fs)
    \/ ValidateElements
    \/ \E t \in InputTypes, v \in Amounts : Calculate(t, v)

Spec == Init /\ [][Next]_vars

----------------------------------------------------------------------------
(* FormulaParser.parse applied to every string over a small alphabet *)

ParseAlphabet == {"C", "l", "5", ".", "("}
Strings == UNION {[1..k -> ParseAlphabet] : k \in 0..MaxLen}

InitParse ==
    /\ formula \in Strings
    /\ parsed = ParseNone
    /\ pc = "parse"
    /\ outcome = ""
    /\ calls = 0
    /\ target = <<>>
    /\ target_mm = Zero
    /\ reagents = <<>>
    /\ reagent_formulas = <<>>
    /\ molar_masses = <<>>
    /\ warning = FALSE
    /\ n = <<>>
    /\ system = NoSystem
    /\ solution = <<>>
    /\ printed = <<>>
    /\ total_mass = <<>>
    /\ verification = <<>>
    /\ errIndex = 0

Parse ==
    /\ pc = "parse"
    /\ parsed' = parse(formula)
    /\ pc' = "parsed"
    /\ UNCHANGED <<formula, outcome, calls, target, target_mm, reagents,
                   reagent_formulas, molar_masses, warning, n, system, solution,
                   printed, total_mass, verification, errIndex>>

NextParse == Parse

SpecParse == InitParse /\ [][NextParse]_vars

----------------------------------------------------------------------------
(* Properties of the run of main() *)

\* some element of the target is in no reagent
TargetUncovered ==
    \E p \in 1..Len(target) :
        \A i \in 1..Len(reagents) : \A q \in 1..Len(reagents[i]) :
            reagents[i][q][1] # target[p][1]

\* some element of a reagent is not in the target
ReagentOnlyElement ==
    \E i \in 1..Len(reagents) : \E q \in 1..Len(reagents[i]) :
        \A p \in 1..Len(target) : target[p][1] # reagents[i][q][1]

\* C3: validate_elements ends the run with the missing-elements error exactly when
\* an element of the target is in no reagent, and then calculate is never entered:
\* no amount is read, no system built, nothing solved or printed; elements only in
\* reagents set the warning and the run goes on to calculate.
C3_CoverageBlocks ==
    /\ [][pc = "validate_elements" =>
            IF TargetUncovered
            THEN pc' = "exit" /\ outcome' = "Missing elements"
            ELSE pc' = "calculate" /\ outcome' = "" /\ warning' = ReagentOnlyElement]_vars
    /\ [](outcome = "Missing elements" =>
            /\ pc = "exit"
            /\ TargetUncovered
            /\ n = <<>> /\ ~system.built /\ solution = <<>>
            /\ printed = <<>> /\ total_mass = <<>> /\ verification = <<>>)
    /\ [](TargetUncovered => pc \notin {"calculate", "done"} /\ ~system.built)

\* C3 witness: the missing-elements exit was taken with two reagents typed
C3_MissingExit ==
    /\ pc = "exit"
    /\ outcome = "Missing elements"
    /\ TargetUncovered
    /\ Len(reagents) = 2

\* the solution calculate took has a negative entry
HasNegative == \E i \in 1..Len(solution) : solution[i][1] < 0

\* C4: a solution with a negative entry ends the run with the negative-moles error
\* naming the first negative reagent (1-based); the total reagent mass and the
\* verification rows are never printed for it.
C4_NegativeRejected ==
    HasNegative =>
        /\ pc = "exit"
        /\ outcome = "Negative moles"
        /\ errIndex \in 1..Len(solution)
        /\ solution[errIndex][1] < 0
        /\ \A j \in 1..(errIndex - 1) : solution[j][1] >= 0
        /\ total_mass = <<>>
        /\ verification = <<>>

\* C4 witness: the second reagent's amount is negative and is the one named
C4_SecondNegative ==
    /\ outcome = "Negative moles"
    /\ Len(solution) = 2
    /\ solution[1][1] > 0
    /\ solution[2][1] < 0
    /\ errIndex = 2

\* C1: when calculate reaches the verification, every element row has an actual
\* amount equal to the target amount and a difference of exactly zero.
C1_BalanceExact ==
    pc = "done" =>
        /\ Len(verification) = Len(system.elements)
        /\ \A r \in 1..Len(verification) :
              /\ verification[r].actual = verification[r].target
              /\ verification[r].diff = Zero

\* the solution set of the system as built, by elimination in exact arithmetic
ExactKind == linsolve(system.A, system.b, Len(reagents), TRUE).kind

\* C2: when the system built has no exact solution, the run ends with the
\* no-exact-solution error and no mole amounts are returned.
C2_InfeasibleDetected ==
    (system.built /\ ExactKind = "empty") =>
        /\ pc = "exit"
        /\ outcome = "No exact solution"
        /\ solution = <<>>

\* the particular solution with every free variable set to zero
FreeZero(rref, piv, nvars) ==
    [c \in 1..nvars |->
        IF \E k \in 1..Len(piv) : piv[k] = c
        THEN rref[CHOOSE k \in 1..Len(piv) : piv[k] = c][nvars + 1]
        ELSE Zero]
ParticularOf(r, nvars) == FreeZero(r.a, r.pivots, nvars)
ParticularSolution ==
    ParticularOf(ddm_irref(Augmented(system.A, system.b), 1, 1, <<>>, TRUE), Len(reagents))

\* C5: when the system built is consistent with free variables, solve returns one
\* amount per reagent: the particular solution with the free variables at zero.
C5_FreeVariablesZero ==
    (system.built /\ ExactKind = "param") =>
        /\ outcome # "InvalidOperation"
        /\ Len(solution) = Len(reagents)
        /\ solution = ParticularSolution

\* what solve returns for twice the amount, against the run's system and solution
Doubled(twice) ==
    /\ twice.system.A = system.A
    /\ twice.system.elements = system.elements
    /\ Len(twice.system.b) = Len(system.b)
    /\ \A e \in 1..Len(system.b) : twice.system.b[e] = RMul(Two, system.b[e])
    /\ twice.kind = "point"
    /\ Len(twice.x) = Len(solution)
    /\ \A c \in 1..Len(solution) : twice.x[c] = RMul(Two, solution[c])

\* C8: when solve returned a solution for n moles, for 2n moles the matrix A and the
\* element order are the same, b is doubled, and every solution entry is exactly
\* twice the entry for n.
C8_ScalesByTwo ==
    solution # <<>> => Doubled(solve(target, reagents, RMul(Two, n)))

\* C9: a run that ended with the missing-elements, no-exact-solution or
\* negative-moles error has printed no reagent's moles or mass.
C9_NoPartialResults ==
    (pc = "exit" /\ outcome \in {"Missing elements", "No exact solution", "Negative moles"})
        => printed = <<>>

\* sum of coefficient * atomic mass over the elements of a dict, from position p on
RECURSIVE MassSum(_, _)
MassSum(dict, p) ==
    IF p > Len(dict) THEN Zero
    ELSE RAdd(RMul(dict[p][2], Get(atomic_masses, dict[p][1], Zero)), MassSum(dict, p + 1))

\* C10: after any input_target call that returned, target_mm is the sum of
\* coefficient * atomic mass over the elements of the target just parsed.
C10_TargetMolarMass ==
    (calls >= 1 /\ pc # "raised") => target_mm = MassSum(target, 1)

----------------------------------------------------------------------------
(* Properties of FormulaParser.parse *)

\* a token starts at every uppercase letter of an accepted string
TokenStarts(str) == {i \in 1..Len(str) : str[i] \in UpperCase}

\* last position of the token starting at i
TokenEnd(str, i) ==
    IF \E j \in TokenStarts(str) : j > i
    THEN (CHOOSE j \in TokenStarts(str) : j > i /\ \A k \in TokenStarts(str) : k > i => j <= k) - 1
    ELSE Len(str)

TokenHasLower(str, i) == i + 1 <= Len(str) /\ str[i + 1] \in LowerCase
TokenSymbol(str, i) == SubSeq(str, i, IF TokenHasLower(str, i) THEN i + 1 ELSE i)
TokenNumber(str, i) == SubSeq(str, IF TokenHasLower(str, i) THEN i + 2 ELSE i + 1, TokenEnd(str, i))
TokenCoeff(str, i) ==
    IF TokenNumber(str, i) = <<>> THEN One ELSE DecimalOf(TokenNumber(str, i)).value

\* exact sum of the coefficients of the tokens starting at the positions in set
RECURSIVE CoeffSum(_, _)
CoeffSum(str, set) ==
    IF set = {} THEN Zero
    ELSE LET i == CHOOSE j \in set : TRUE
         IN  RAdd(TokenCoeff(str, i), CoeffSum(str, set \ {i}))

HasResidual(str) ==
    \E i \in 1..Len(str) :
        /\ str[i] \notin UpperCase
        /\ ~IsNumberChar(str[i])
        /\ ~(str[i] \in LowerCase /\ i > 1 /\ str[i - 1] \in UpperCase)

\* C7: parse fails on every string with no token, with a residual character, with a
\* number before the first symbol, or with a parenthesis.
C7_ParseRejects ==
    (/\ pc = "parsed"
     /\ \/ TokenStarts(formula) = {}
        \/ HasResidual(formula)
        \/ formula[1] \notin UpperCase
        \/ \E i \in 1..Len(formula) : formula[i] = "(")
    => ~parsed.ok

====
